---- MODULE Spec2Model ----
(***************************************************************************)
(* A model of scraper.py: the portfolio rebalancing calculation.           *)
(*                                                                         *)
(* The program is one sequential run of main().  Its money values are      *)
(* decimal.Decimal numbers computed in the default context: 28 significant *)
(* digits, ROUND_HALF_EVEN, InvalidOperation, DivisionByZero and Overflow  *)
(* trapped.  The model carries every value as a Decimal record [sign, int, *)
(* exp, special]: a finite number (-1)^sign * int * 10^exp, with int a     *)
(* sequence of decimal digits, most significant first, or an infinity or a *)
(* NaN, and computes each operation the way the decimal module does,       *)
(* rounding and exceptions included.  Text is ASCII and an exponent fits a *)
(* machine integer.                                                        *)
(***************************************************************************)
EXTENDS Integers, Sequences, FiniteSets, TLC

\* decimal.getcontext().prec of the default context
Prec == 28

Max2(a, b) == IF a >= b THEN a ELSE b
Min2(a, b) == IF a <= b THEN a ELSE b

(***************************************************************************)
(* Coefficients: natural numbers as digit sequences, most significant      *)
(* digit first, without leading zeros (zero is <<0>>).                     *)
(***************************************************************************)
Zeros(k) == [i \in 1..k |-> 0]

RECURSIVE StripZeros(_)
StripZeros(s) ==
  IF Len(s) > 1 /\ s[1] = 0 THEN StripZeros(Tail(s)) ELSE s

PadLeft(s, n) == Zeros(n - Len(s)) \o s

NatIsZero(s) == \A i \in 1..Len(s) : s[i] = 0

\* str(n) for a machine-sized natural n
RECURSIVE NatOf(_)
NatOf(n) == IF n < 10 THEN <<n>> ELSE Append(NatOf(n \div 10), n % 10)

\* int(s) for a coefficient that fits a machine integer
RECURSIVE NatVal(_)
NatVal(s) ==
  IF Len(s) = 0 THEN 0 ELSE 10 * NatVal(SubSeq(s, 1, Len(s) - 1)) + s[Len(s)]

\* the coefficients whose arithmetic a machine integer can carry
NatSmall(a) == Len(a) <= 8

\* -1, 0, 1 as a < b, a = b, a > b (a, b without leading zeros)
NatCmp(a, b) ==
  IF Len(a) # Len(b) THEN (IF Len(a) < Len(b) THEN -1 ELSE 1)
  ELSE LET D == {i \in 1..Len(a) : a[i] # b[i]}
       IN  IF D = {} THEN 0
           ELSE LET i == CHOOSE j \in D : \A k \in D : j <= k
                IN  IF a[i] < b[i] THEN -1 ELSE 1

\* a + b: the carry into a position comes from the nearest lower position
\* whose digits do not add up to 9
NatAdd(a, b) ==
  IF NatSmall(a) /\ NatSmall(b) THEN NatOf(NatVal(a) + NatVal(b))
  ELSE LET n == Max2(Len(a), Len(b)) + 1
           x == PadLeft(a, n)
           y == PadLeft(b, n)
           carry(i) == \E j \in (i + 1)..n :
                          /\ x[j] + y[j] >= 10
                          /\ \A k \in (i + 1)..(j - 1) : x[k] + y[k] = 9
       IN  StripZeros([i \in 1..n |->
                         (x[i] + y[i] + IF carry(i) THEN 1 ELSE 0) % 10])

\* a - b, for a >= b: the borrow comes from the nearest lower position whose
\* digits differ
NatSub(a, b) ==
  IF NatSmall(a) /\ NatSmall(b) THEN NatOf(NatVal(a) - NatVal(b))
  ELSE LET n == Max2(Len(a), Len(b))
           x == PadLeft(a, n)
           y == PadLeft(b, n)
           borrow(i) == \E j \in (i + 1)..n :
                           /\ x[j] < y[j]
                           /\ \A k \in (i + 1)..(j - 1) : x[k] = y[k]
       IN  StripZeros([i \in 1..n |->
                         (10 + x[i] - y[i] - IF borrow(i) THEN 1 ELSE 0) % 10])

\* a * 10^k
NatShift(a, k) == IF NatIsZero(a) THEN a ELSE a \o Zeros(k)

\* a * b, by halves of the longer factor down to machine-sized products
RECURSIVE NatMul(_, _)
NatMul(a, b) ==
  IF Len(a) + Len(b) <= 9 THEN NatOf(NatVal(a) * NatVal(b))
  ELSE IF Len(a) < Len(b) THEN NatMul(b, a)
  ELSE LET h == Len(a) \div 2
           hi == StripZeros(SubSeq(a, 1, h))
           lo == StripZeros(SubSeq(a, h + 1, Len(a)))
       IN  NatAdd(NatShift(NatMul(hi, b), Len(a) - h), NatMul(lo, b))

\* <<b, 2b, ..., kb>>
RECURSIVE Multiples(_, _)
Multiples(b, k) ==
  IF k = 1 THEN <<b>>
  ELSE LET p == Multiples(b, k - 1) IN Append(p, NatAdd(p[k - 1], b))

\* the digit d of lo..hi with m[d] <= t < m[d + 1], and what t leaves of it
QuotBetween(t, m, lo, hi) ==
  LET q == CHOOSE d \in lo..hi :
             /\ NatCmp(m[d], t) <= 0
             /\ \A e \in (d + 1)..hi : NatCmp(m[e], t) > 0
  IN  <<q, NatSub(t, m[q])>>

\* the same, the leading digits tt of t and bt of the divisor bracketing it
QuotBracket(t, m, tt, bt) ==
  QuotBetween(t, m, Max2(1, tt \div (bt + 1)), Min2(9, (tt + 1) \div bt))

\* divmod(t, b) for b <= t < 10 * b, given m = Multiples(b, 9): <<digit, rest>>
QuotDigit(t, m) ==
  IF NatSmall(m[1])
  THEN <<NatVal(t) \div NatVal(m[1]), NatOf(NatVal(t) % NatVal(m[1]))>>
  ELSE QuotBracket(t, m, NatVal(SubSeq(t, 1, Len(t) - (Len(m[1]) - 7))),
                   NatVal(SubSeq(m[1], 1, 7)))

\* one step of the long division: the remainder so far and the next digit
DivStep(t, m) ==
  IF NatCmp(t, m[1]) < 0 THEN <<0, t>> ELSE QuotDigit(t, m)

DivOne(qr) == <<<<qr[1]>>, qr[2]>>

DivJoin(digits, right) == <<digits \o right[1], right[2]>>

\* long division of digits i..j of a by b = m[1], entered with remainder r:
\* <<quotient digits, remainder>>; the digits h + 1..j follow those up to h
RECURSIVE DivDigits(_, _, _, _, _)
RECURSIVE DivRight(_, _, _, _, _)
DivRight(a, m, h, j, left) == DivJoin(left[1], DivDigits(a, m, h + 1, j, left[2]))

DivDigits(a, m, i, j, r) ==
  IF i = j THEN DivOne(DivStep(StripZeros(Append(r, a[i])), m))
  ELSE DivRight(a, m, (i + j) \div 2, j, DivDigits(a, m, i, (i + j) \div 2, r))

QuotRem(r) == <<StripZeros(r[1]), r[2]>>

\* divmod(a, b) for b # 0: <<quotient, remainder>>
NatDivMod(a, b) ==
  QuotRem(DivDigits(a, IF NatSmall(b) THEN <<b>> ELSE Multiples(b, 9), 1, Len(a),
                    <<0>>))

(***************************************************************************)
(* decimal.Decimal                                                         *)
(***************************************************************************)
\* the exponent limits of the default context
Emax == 999999
Emin == -999999
Etiny == Emin - Prec + 1
Etop == Emax - Prec + 1

\* a finite number
Dec(s, c, e) == [sign |-> s, int |-> c, exp |-> e, special |-> ""]

\* an infinity ("F"), a quiet NaN ("n") or a signaling NaN ("N"), named as
\* Decimal._exp names them; c is the payload of a NaN, <<0>> for an infinity
DecSpecial(s, c, kind) == [sign |-> s, int |-> c, exp |-> 0, special |-> kind]

Infinity(s) == DecSpecial(s, <<0>>, "F")

\* an exception raised where a value was to be computed, by its class
Signal(exception) == [sign |-> 0, int |-> <<>>, exp |-> 0, special |-> exception]

Exceptions == {"InvalidOperation", "DivisionByZero", "Overflow", "KeyError"}

IsSignal(d) == d.special \in Exceptions
IsNaN(d) == d.special \in {"n", "N"}
IsInfinite(d) == d.special = "F"
IsFinite(d) == d.special = ""

\* Decimal(n) for an integer n
DecOfInt(n) == IF n < 0 THEN Dec(1, NatOf(-n), 0) ELSE Dec(0, NatOf(n), 0)

\* Decimal("<n>e<e>"): the number n * 10^e written with -e decimals
DecOf(n, e) == [DecOfInt(n) EXCEPT !.exp = e]

\* not d (Decimal.__bool__ is true of the special values)
DecIsZero(d) == IsFinite(d) /\ NatIsZero(d.int)

\* the digits of a NaN's payload: no leading zero, none at all for zero
Payload(digits) == IF NatIsZero(digits) THEN <<>> ELSE StripZeros(digits)

\* Decimal._fix_nan: a payload longer than the precision loses its first digits
DecFixNaN(d) ==
  IF Len(d.int) > Prec
  THEN [d EXCEPT !.int = Payload(SubSeq(d.int, Len(d.int) - Prec + 1, Len(d.int)))]
  ELSE d

\* the coefficient grown by the rounding: a digit more than Prec is dropped
\* for an exponent one higher
DecGrown(sign, grown, exp) ==
  IF Len(grown) <= Prec THEN Dec(sign, grown, exp)
  ELSE IF exp + 1 > Etop THEN Signal("Overflow")
  ELSE Dec(sign, SubSeq(grown, 1, Len(grown) - 1), exp + 1)

\* ROUND_HALF_EVEN of the digits kept, by the digits dropped (rest)
DecRound(sign, kept, rest, exp) ==
  IF (IF rest[1] = 5 /\ \A i \in 2..Len(rest) : rest[i] = 0
      THEN kept[Len(kept)] % 2 = 1 ELSE rest[1] >= 5)
  THEN DecGrown(sign, NatAdd(kept, <<1>>), exp)
  ELSE Dec(sign, kept, exp)

\* d rounded to the higher exponent exp, keeping its first digits (none of
\* them when there are fewer than it drops)
DecKeep(d, digits, exp) ==
  IF digits < 0 THEN DecRound(d.sign, <<0>>, <<1>>, exp)
  ELSE DecRound(d.sign, IF digits = 0 THEN <<0>> ELSE SubSeq(d.int, 1, digits),
                SubSeq(d.int, digits + 1, Len(d.int)), exp)

DecFixTo(d, top, exp_min) ==
  IF top > Etop THEN Signal("Overflow")
  ELSE IF d.exp >= exp_min THEN d
  ELSE DecKeep(d, Len(d.int) + d.exp - exp_min, exp_min)

\* Decimal._fix: round the coefficient to Prec digits and the exponent into
\* Etiny..Etop, ROUND_HALF_EVEN; Overflow is trapped, the other signals of
\* rounding are not
DecFix(d) ==
  IF IsSignal(d) \/ IsInfinite(d) THEN d
  ELSE IF IsNaN(d) THEN DecFixNaN(d)
  ELSE IF NatIsZero(d.int)
  THEN Dec(d.sign, <<0>>, Min2(Max2(d.exp, Etiny), Emax))
  ELSE DecFixTo(d, Len(d.int) + d.exp - Prec,
                Max2(Len(d.int) + d.exp - Prec, Etiny))

\* Decimal._rescale to a lower or equal exponent (exact)
DecRescale(d, e) ==
  IF NatIsZero(d.int) THEN Dec(d.sign, <<0>>, e)
  ELSE Dec(d.sign, NatShift(d.int, d.exp - e), e)

\* Decimal._check_nans: a signaling NaN raises, a quiet one is the result
\* (the first operand's before the second's)
CheckNaNs(a, b) ==
  IF a.special = "N" \/ b.special = "N" THEN Signal("InvalidOperation")
  ELSE IF IsNaN(a) THEN DecFixNaN(a)
  ELSE DecFixNaN(b)

\* Decimal._normalize: tmp, the operand of the higher exponent, brought to
\* the exponent of the other; an other too small to reach the digits kept
\* is replaced by 1 at the exponent e just below them: <<tmp's coefficient,
\* the other's, their exponent>>
NormalizeTo(tmp, oint, oexp) == <<NatShift(tmp.int, tmp.exp - oexp), oint, oexp>>

NormalizeAt(tmp, other, e) ==
  IF Len(other.int) + other.exp - 1 < e THEN NormalizeTo(tmp, <<1>>, e)
  ELSE NormalizeTo(tmp, other.int, other.exp)

Normalize(tmp, other) ==
  NormalizeAt(tmp, other, tmp.exp + Min2(-1, Len(tmp.int) - Prec - 2))

\* the sum of x with the sign of a and y with the sign of b at exponent oexp,
\* c comparing x with y; a zero difference has the lower exponent of the two
AddCompared(asign, x, bsign, y, oexp, exp, c) ==
  IF asign = bsign THEN Dec(asign, NatAdd(x, y), oexp)
  ELSE IF c = 0 THEN Dec(0, <<0>>, exp)
  ELSE IF c > 0 THEN Dec(asign, NatSub(x, y), oexp)
  ELSE Dec(bsign, NatSub(y, x), oexp)

AddCoeffs(asign, x, bsign, y, oexp, exp) ==
  AddCompared(asign, x, bsign, y, oexp, exp, NatCmp(x, y))

AddNormal(asign, bsign, n, i, j, exp) ==
  AddCoeffs(asign, n[i], bsign, n[j], n[3], exp)

\* the sum of two finite numbers before it is rounded
AddExact(a, b, exp) ==
  IF NatIsZero(a.int) /\ NatIsZero(b.int) THEN Dec(Min2(a.sign, b.sign), <<0>>, exp)
  ELSE IF NatIsZero(a.int) THEN DecRescale(b, Max2(exp, b.exp - Prec - 1))
  ELSE IF NatIsZero(b.int) THEN DecRescale(a, Max2(exp, a.exp - Prec - 1))
  ELSE IF a.exp < b.exp THEN AddNormal(a.sign, b.sign, Normalize(b, a), 2, 1, exp)
  ELSE AddNormal(a.sign, b.sign, Normalize(a, b), 1, 2, exp)

\* __add__ of two finite numbers
AddFinite(a, b) == DecFix(AddExact(a, b, Min2(a.exp, b.exp)))

\* Decimal.__add__
DecAdd(a, b) ==
  IF IsSignal(a) THEN a
  ELSE IF IsSignal(b) THEN b
  ELSE IF IsNaN(a) \/ IsNaN(b) THEN CheckNaNs(a, b)
  ELSE IF IsInfinite(a)
  THEN (IF IsInfinite(b) /\ a.sign # b.sign THEN Signal("InvalidOperation") ELSE a)
  ELSE IF IsInfinite(b) THEN b
  ELSE AddFinite(a, b)

\* Decimal.copy_negate
DecNegate(a) == [a EXCEPT !.sign = 1 - a.sign]

\* Decimal.__sub__
DecSub(a, b) ==
  IF IsSignal(a) THEN a
  ELSE IF IsSignal(b) THEN b
  ELSE IF IsNaN(a) \/ IsNaN(b) THEN CheckNaNs(a, b)
  ELSE DecAdd(a, DecNegate(b))

\* __mul__ of two finite numbers
MulFinite(a, b, sign) ==
  DecFix(Dec(sign,
             IF NatIsZero(a.int) \/ NatIsZero(b.int) THEN <<0>>
             ELSE NatMul(a.int, b.int),
             a.exp + b.exp))

\* __mul__ by an infinity
MulInfinite(finite, sign) ==
  IF DecIsZero(finite) THEN Signal("InvalidOperation") ELSE Infinity(sign)

\* Decimal.__mul__
DecMul(a, b) ==
  IF IsSignal(a) THEN a
  ELSE IF IsSignal(b) THEN b
  ELSE IF IsNaN(a) \/ IsNaN(b) THEN CheckNaNs(a, b)
  ELSE IF IsInfinite(a) THEN MulInfinite(b, (a.sign + b.sign) % 2)
  ELSE IF IsInfinite(b) THEN MulInfinite(a, (a.sign + b.sign) % 2)
  ELSE MulFinite(a, b, (a.sign + b.sign) % 2)

\* the exact quotient brought as close to the ideal exponent as its zeros allow
RECURSIVE DivIdeal(_, _, _)
DivIdeal(coeff, exp, ideal) ==
  IF exp < ideal /\ Len(coeff) > 1 /\ coeff[Len(coeff)] = 0
  THEN DivIdeal(SubSeq(coeff, 1, Len(coeff) - 1), exp + 1, ideal)
  ELSE <<coeff, exp>>

DecOfPair(sign, ce) == Dec(sign, ce[1], ce[2])

\* the quotient qr[1] at exponent exp: with a remainder, a last digit of 0 or
\* 5 is raised by one for the rounding to see the remainder
DivQuotient(sign, qr, exp, ideal) ==
  IF NatIsZero(qr[2]) THEN DecOfPair(sign, DivIdeal(qr[1], exp, ideal))
  ELSE Dec(sign,
           IF qr[1][Len(qr[1])] % 5 = 0 THEN NatAdd(qr[1], <<1>>) ELSE qr[1],
           exp)

\* a.int * 10^shift over b.int: Prec + 1 digits of quotient
DivShifted(a, b, sign, shift, ideal) ==
  DivQuotient(sign,
              NatDivMod(IF shift >= 0 THEN NatShift(a.int, shift) ELSE a.int,
                        IF shift >= 0 THEN b.int ELSE NatShift(b.int, -shift)),
              ideal - shift, ideal)

\* the quotient of two finite numbers, b not zero, before it is rounded
DivExact(a, b, sign) ==
  IF NatIsZero(a.int) THEN Dec(sign, <<0>>, a.exp - b.exp)
  ELSE DivShifted(a, b, sign, Len(b.int) - Len(a.int) + Prec + 1, a.exp - b.exp)

\* __truediv__ of a finite number by a finite number that is not zero
DivFinite(a, b) == DecFix(DivExact(a, b, (a.sign + b.sign) % 2))

\* Decimal.__truediv__: 0 / 0 and Infinity / Infinity raise InvalidOperation,
\* x / 0 raises DivisionByZero
DecDiv(a, b) ==
  IF IsSignal(a) THEN a
  ELSE IF IsSignal(b) THEN b
  ELSE IF IsNaN(a) \/ IsNaN(b) THEN CheckNaNs(a, b)
  ELSE IF IsInfinite(a) /\ IsInfinite(b) THEN Signal("InvalidOperation")
  ELSE IF IsInfinite(a) THEN Infinity((a.sign + b.sign) % 2)
  ELSE IF IsInfinite(b) THEN Dec((a.sign + b.sign) % 2, <<0>>, Etiny)
  ELSE IF NatIsZero(b.int)
  THEN (IF NatIsZero(a.int) THEN Signal("InvalidOperation")
        ELSE Signal("DivisionByZero"))
  ELSE DivFinite(a, b)

\* 1, -1, 0 for Infinity, -Infinity, anything else (Decimal._isinfinity)
InfinityOf(d) == IF IsInfinite(d) THEN (IF d.sign = 0 THEN 1 ELSE -1) ELSE 0

\* Decimal._cmp of two numbers, neither a NaN: -1, 0, 1
DecCmp(a, b) ==
  IF IsInfinite(a) \/ IsInfinite(b)
  THEN (IF InfinityOf(a) = InfinityOf(b) THEN 0
        ELSE IF InfinityOf(a) < InfinityOf(b) THEN -1 ELSE 1)
  ELSE IF NatIsZero(a.int) /\ NatIsZero(b.int) THEN 0
  ELSE IF NatIsZero(a.int) THEN (IF b.sign = 0 THEN -1 ELSE 1)
  ELSE IF NatIsZero(b.int) THEN (IF a.sign = 0 THEN 1 ELSE -1)
  ELSE IF a.sign # b.sign THEN (IF a.sign = 0 THEN 1 ELSE -1)
  ELSE LET adjusted_a == a.exp + Len(a.int) - 1
           adjusted_b == b.exp + Len(b.int) - 1
           c == IF adjusted_a = adjusted_b
                THEN NatCmp(NatShift(a.int, Max2(a.exp - b.exp, 0)),
                            NatShift(b.int, Max2(b.exp - a.exp, 0)))
                ELSE IF adjusted_a > adjusted_b THEN 1 ELSE -1
       IN  IF a.sign = 0 THEN c ELSE -c

\* an ordering comparison (<, <=, >, >=) of a NaN raises InvalidOperation
CmpRaises(a, b) == IsNaN(a) \/ IsNaN(b)

DecEq(a, b) == DecCmp(a, b) = 0
DecLe(a, b) == DecCmp(a, b) <= 0
DecGt(a, b) == DecCmp(a, b) > 0

\* the builtin max(a, b): b if b > a, else a
PyMax(a, b) ==
  IF IsSignal(a) THEN a
  ELSE IF IsSignal(b) THEN b
  ELSE IF CmpRaises(b, a) THEN Signal("InvalidOperation")
  ELSE IF DecGt(b, a) THEN b ELSE a

(***************************************************************************)
(* Text, as the sequence of its characters, and the Decimal constructor    *)
(***************************************************************************)
DigitChars == <<"0", "1", "2", "3", "4", "5", "6", "7", "8", "9">>

IsDigitChar(c) == \E i \in 1..10 : DigitChars[i] = c

DigitOf(c) == (CHOOSE i \in 1..10 : DigitChars[i] = c) - 1

AllDigits(text) == \A i \in 1..Len(text) : IsDigitChar(text[i])

DigitsOf(text) == [i \in 1..Len(text) |-> DigitOf(text[i])]

\* the ASCII characters str.strip() and Decimal() remove (str.isspace()):
\* the space, the tab, the line feed, the carriage return, the form feed,
\* and, written here as the characters themselves, the vertical tab (code
\* 11) and the file, group, record and unit separators (codes 28 to 31)
VerticalTab == ""

FileSeparator == ""

GroupSeparator == ""

RecordSeparator == ""

UnitSeparator == ""

WhiteSpace ==
  {" ", "\t", "\n", "\r", "\f", VerticalTab, FileSeparator, GroupSeparator,
   RecordSeparator, UnitSeparator}

\* str.strip()
Strip(text) ==
  LET inked == {i \in 1..Len(text) : text[i] \notin WhiteSpace}
  IN  IF inked = {} THEN <<>>
      ELSE SubSeq(text, CHOOSE i \in inked : \A j \in inked : i <= j,
                        CHOOSE i \in inked : \A j \in inked : i >= j)

\* the letters of a Decimal literal, which are read in either case
Lower(c) ==
  CASE c = "E" -> "e" [] c = "I" -> "i" [] c = "N" -> "n" [] c = "F" -> "f"
    [] c = "T" -> "t" [] c = "Y" -> "y" [] c = "A" -> "a" [] c = "S" -> "s"
    [] OTHER -> c

\* str.replace(",", "")
RemoveCommas(text) == SelectSeq(text, LAMBDA c : c # ",")

\* where c first stands in text, Len(text) + 1 if nowhere
FirstOf(text, c) ==
  LET at == {i \in 1..Len(text) : text[i] = c}
  IN  IF at = {} THEN Len(text) + 1 ELSE CHOOSE i \in at : \A j \in at : i <= j

\* a literal's sign, and the literal without it
SignOf(s) == IF Len(s) > 0 /\ s[1] = "-" THEN 1 ELSE 0
Unsigned(s) == IF Len(s) > 0 /\ s[1] \in {"-", "+"} THEN Tail(s) ELSE s

\* what Decimal() gives where it raises InvalidOperation
NoDecimal == [ok |-> FALSE, val |-> Dec(0, <<>>, 0)]

\* digits [. digits] with a digit at least, the point standing at dpos
IsMantissa(m, dpos) ==
  /\ AllDigits(SubSeq(m, 1, dpos - 1))
  /\ AllDigits(SubSeq(m, dpos + 1, Len(m)))
  /\ Len(m) > (IF dpos <= Len(m) THEN 1 ELSE 0)

\* [sign] digits
IsExponent(e) == Len(Unsigned(e)) > 0 /\ AllDigits(Unsigned(e))

ExponentOf(e) ==
  (IF SignOf(e) = 1 THEN -1 ELSE 1) * NatVal(StripZeros(DigitsOf(Unsigned(e))))

\* the number of mantissa m and exponent exp
NumberOf(sign, m, dpos, exp) ==
  Dec(sign,
      StripZeros(DigitsOf(SubSeq(m, 1, dpos - 1) \o SubSeq(m, dpos + 1, Len(m)))),
      exp - (Len(m) - Min2(dpos, Len(m))))

\* digits [. digits] [e [sign] digits]: the mantissa m, and the exponent e
\* when the literal has one
ParseParts(sign, m, dpos, e, has_e) ==
  IF IsMantissa(m, dpos) /\ (has_e => IsExponent(e))
  THEN [ok |-> TRUE,
        val |-> NumberOf(sign, m, dpos, IF has_e THEN ExponentOf(e) ELSE 0)]
  ELSE NoDecimal

ParseMantissa(sign, m, e, has_e) == ParseParts(sign, m, FirstOf(m, "."), e, has_e)

ParseNumber(sign, body, epos) ==
  ParseMantissa(sign, SubSeq(body, 1, epos - 1), SubSeq(body, epos + 1, Len(body)),
                epos <= Len(body))

\* nan [digits], quiet ("n") or signaling ("N")
ParseNaN(sign, named, kind) ==
  IF /\ Len(named) >= 3
     /\ SubSeq(named, 1, 3) = <<"n", "a", "n">>
     /\ AllDigits(SubSeq(named, 4, Len(named)))
  THEN [ok |-> TRUE,
        val |-> DecSpecial(sign, Payload(DigitsOf(SubSeq(named, 4, Len(named)))), kind)]
  ELSE NoDecimal

\* the literal after its sign, in lower case
ParseUnsigned(sign, body) ==
  IF body \in {<<"i", "n", "f">>, <<"i", "n", "f", "i", "n", "i", "t", "y">>}
  THEN [ok |-> TRUE, val |-> Infinity(sign)]
  ELSE IF Len(body) > 0 /\ body[1] = "s" THEN ParseNaN(sign, Tail(body), "N")
  ELSE IF Len(body) > 0 /\ body[1] = "n" THEN ParseNaN(sign, body, "n")
  ELSE ParseNumber(sign, body, FirstOf(body, "e"))

ParseLiteral(s) == ParseUnsigned(SignOf(s), Unsigned(s))

Lowered(text) == [i \in 1..Len(text) |-> Lower(text[i])]

\* Decimal(text): blanks around the literal and underscores anywhere are
\* dropped, then the literal is
\*   [sign] digits [. digits] [e [sign] digits]    with a digit before the e,
\*   [sign] inf | infinity,   or   [sign] [s] nan [digits].
\* ok is FALSE where the constructor raises InvalidOperation.  The value is
\* not rounded.
PyDecimal(text) ==
  ParseLiteral(Lowered(SelectSeq(Strip(text), LAMBDA c : c # "_")))

(***************************************************************************)
(* dict: the keys in insertion order, and the value of each                *)
(***************************************************************************)
EmptyDict == [keys |-> <<>>, val |-> <<>>]

Range(seq) == {seq[i] : i \in 1..Len(seq)}

HasKey(d, k) == k \in Range(d.keys)

\* d[k] = v
DictSet(d, k, v) ==
  IF HasKey(d, k) THEN [d EXCEPT !.val = [x \in DOMAIN d.val |-> IF x = k THEN v ELSE d.val[x]]]
  ELSE [keys |-> Append(d.keys, k),
        val |-> [x \in DOMAIN d.val \cup {k} |-> IF x = k THEN v ELSE d.val[x]]]

\* d.get(k, default)
DictGet(d, k, default) == IF HasKey(d, k) THEN d.val[k] ELSE default

\* list(d.values())
DictValues(d) == [i \in 1..Len(d.keys) |-> d.val[d.keys[i]]]

\* {k: f(k) for k in keys}
DictOver(keys, f(_)) ==
  [keys |-> keys, val |-> [k \in Range(keys) |-> f(k)]]

\* the builtin sum(values): 0 + v1 + v2 + ... (the int 0 is Decimal(0) as an
\* operand; sum of nothing is the int 0, written here Decimal(0))
RECURSIVE SumUpTo(_, _)
SumUpTo(values, n) ==
  IF n = 0 THEN DecOfInt(0)
  ELSE IF n = 1 THEN DecAdd(values[1], DecOfInt(0))
  ELSE DecAdd(SumUpTo(values, n - 1), values[n])

PySum(values) == SumUpTo(values, Len(values))

\* the entries of d whose computation raised, by their place in d
Failed(d) == {i \in 1..Len(d.keys) : IsSignal(d.val[d.keys[i]])}

FirstFailed(d) == CHOOSE i \in Failed(d) : \A j \in Failed(d) : i <= j

\* the exception that ends a loop or a comprehension computing d entry by
\* entry: that of the first entry that raises, "none" if none does
Failure(d) ==
  IF Failed(d) = {} THEN "none" ELSE d.val[d.keys[FirstFailed(d)]].special

\* what a function building d returns: d, or the exception that ended it
Returned(d) ==
  IF Failure(d) = "none" THEN [error |-> "none", dict |-> d]
  ELSE [error |-> Failure(d), dict |-> EmptyDict]

\* d as a loop assigning its entries one by one leaves it when entry k
\* raises: the entries before k
ComputedBefore(d, k) ==
  [keys |-> SubSeq(d.keys, 1, k - 1),
   val |-> [c \in {d.keys[i] : i \in 1..(k - 1)} |-> d.val[c]]]

\* d as an in-place loop leaves it when entry k raises: the entries before k
\* are those of new
ReplacedBefore(d, new, k) ==
  [keys |-> d.keys,
   val |-> [c \in Range(d.keys) |->
              IF \E i \in 1..(k - 1) : d.keys[i] = c THEN new.val[c] ELSE d.val[c]]]

(***************************************************************************)
(* The functions of scraper.py                                             *)
(***************************************************************************)
LocalBalancePath == "balances_local.csv"
FallbackBalancePath == "balances.csv"
CashSymbol == "VMFXX"

\* get_balance_file_path: the local file if it exists, else the fallback
get_balance_file_path(files) ==
  IF LocalBalancePath \in DOMAIN files THEN LocalBalancePath
  ELSE FallbackBalancePath

\* the loop of get_balance_dictionary over rows[i..]: stop at a blank row,
\* read the third and the sixth cell (IndexError on a shorter row), skip
\* the cash symbol, convert and store the others (a later row of a symbol
\* replaces its balance; InvalidOperation where Decimal() raises).
RECURSIVE ReadRows(_, _, _)
RECURSIVE StoreBalance(_, _, _, _)
ReadRows(rows, i, symbol_balance) ==
  IF i > Len(rows) \/ Len(rows[i]) = 0
  THEN [error |-> "none", dict |-> symbol_balance]
  ELSE IF Len(rows[i]) < 6 THEN [error |-> "IndexError", dict |-> EmptyDict]
  ELSE IF rows[i][3] = CashSymbol THEN ReadRows(rows, i + 1, symbol_balance)
  ELSE StoreBalance(rows, i, symbol_balance, PyDecimal(rows[i][6]))

\* lines 49-50 for row i: Decimal(balance_str) raises or the balance is stored
StoreBalance(rows, i, symbol_balance, balance) ==
  IF ~balance.ok THEN [error |-> "InvalidOperation", dict |-> EmptyDict]
  ELSE ReadRows(rows, i + 1, DictSet(symbol_balance, rows[i][3], balance.val))

\* get_balance_dictionary: next(reader) drops the header row, and raises
\* StopIteration on a file without a row
get_balance_dictionary(rows) ==
  IF Len(rows) = 0 THEN [error |-> "StopIteration", dict |-> EmptyDict]
  ELSE ReadRows(rows, 2, EmptyDict)

\* the inner loop of get_category_totals over symbols[1..n]
RECURSIVE CategoryTotal(_, _, _)
CategoryTotal(symbol_balances, symbols, n) ==
  IF n = 0 THEN DecOfInt(0)
  ELSE DecAdd(CategoryTotal(symbol_balances, symbols, n - 1),
              DictGet(symbol_balances, symbols[n], DecOfInt(0)))

\* get_category_totals adding each symbol of a list once, however often listed
get_category_totals_distinct(symbol_balances, categories) ==
  Returned(DictOver(categories.keys,
           LAMBDA category :
             LET listed == categories.val[category]
                 firsts == SelectSeq([i \in 1..Len(listed) |-> <<i, listed[i]>>],
                                     LAMBDA e : \A j \in 1..(e[1] - 1) : listed[j] # e[2])
             IN  CategoryTotal(symbol_balances,
                               [i \in 1..Len(firsts) |-> firsts[i][2]], Len(firsts))))

\* get_category_totals with = for +=: the last symbol's balance is the total
get_category_totals_last(symbol_balances, categories) ==
  Returned(DictOver(categories.keys,
           LAMBDA category :
             LET listed == categories.val[category]
             IN  IF listed = <<>> THEN DecOfInt(0)
                 ELSE DictGet(symbol_balances, listed[Len(listed)], DecOfInt(0))))

\* get_category_totals: an addition that raises ends the call
get_category_totals(symbol_balances, categories) ==
  Returned(DictOver(categories.keys,
                    LAMBDA category :
                      CategoryTotal(symbol_balances, categories.val[category],
                                    Len(categories.val[category]))))

\* prompt_for_investment_amount, given the line typed
prompt_for_investment_amount(typed) == PyDecimal(RemoveCommas(typed))

\* get_desired_balances from the balance before the investment
get_desired_balances_current(investment_amount, total_balance, target_allocation) ==
  LET new_total_balance == DecAdd(total_balance, investment_amount)
  IN  IF IsSignal(new_total_balance)
      THEN [error |-> new_total_balance.special, dict |-> EmptyDict]
      ELSE Returned(DictOver(target_allocation.keys,
                             LAMBDA category :
                               DecMul(total_balance, target_allocation.val[category])))

\* get_desired_balances: the sum raises before any product does
get_desired_balances(investment_amount, total_balance, target_allocation) ==
  LET new_total_balance == DecAdd(total_balance, investment_amount)
  IN  IF IsSignal(new_total_balance)
      THEN [error |-> new_total_balance.special, dict |-> EmptyDict]
      ELSE Returned(DictOver(target_allocation.keys,
                             LAMBDA category :
                               DecMul(new_total_balance,
                                      target_allocation.val[category])))

\* the shortfalls without the floor at zero
NeededInvestments_signed(categories, desired_balances, category_totals) ==
  DictOver(categories.keys,
           LAMBDA category :
             IF ~HasKey(desired_balances, category) THEN Signal("KeyError")
             ELSE DecSub(desired_balances.val[category],
                         category_totals.val[category]))

\* lines 135-140: what each category lacks of its desired balance; a
\* category without a desired balance raises KeyError
NeededInvestments(categories, desired_balances, category_totals) ==
  DictOver(categories.keys,
           LAMBDA category :
             IF ~HasKey(desired_balances, category) THEN Signal("KeyError")
             ELSE PyMax(DecSub(desired_balances.val[category],
                               category_totals.val[category]),
                        DecOfInt(0)))

\* the scaling without its factor: each category's part of the shortfalls
CappedInvestments_ratio(needed_investments, total_needed, investment_amount) ==
  IF DecGt(total_needed, investment_amount)
  THEN DictOver(needed_investments.keys,
                LAMBDA category :
                  DecDiv(needed_investments.val[category], total_needed))
  ELSE needed_investments

\* the scaling applied whenever there is a shortfall, so that the whole
\* investment is handed out
CappedInvestments_always(needed_investments, total_needed, investment_amount) ==
  IF ~DecIsZero(total_needed)
  THEN DictOver(needed_investments.keys,
                LAMBDA category :
                  DecMul(investment_amount,
                         DecDiv(needed_investments.val[category], total_needed)))
  ELSE needed_investments

\* the scaling skipped when nothing is invested
CappedInvestments_nonzero(needed_investments, total_needed, investment_amount) ==
  IF DecGt(total_needed, investment_amount) /\ ~DecIsZero(investment_amount)
  THEN DictOver(needed_investments.keys,
                LAMBDA category :
                  DecMul(investment_amount,
                         DecDiv(needed_investments.val[category], total_needed)))
  ELSE needed_investments

\* lines 144-148: the shortfalls, scaled to the investment when they exceed it
CappedInvestments(needed_investments, total_needed, investment_amount) ==
  IF DecGt(total_needed, investment_amount)
  THEN DictOver(needed_investments.keys,
                LAMBDA category :
                  DecMul(investment_amount,
                         DecDiv(needed_investments.val[category], total_needed)))
  ELSE needed_investments

\* the resulting totals without the current ones
ResultingTotals_needed_only(categories, category_totals, needed_investments) ==
  DictOver(categories.keys, LAMBDA category : needed_investments.val[category])

\* lines 151-154
ResultingTotals(categories, category_totals, needed_investments) ==
  DictOver(categories.keys,
           LAMBDA category :
             DecAdd(category_totals.val[category],
                    needed_investments.val[category]))

(***************************************************************************)
(* The inputs of a run: the files present, the configuration, the line     *)
(* typed at the prompt                                                     *)
(***************************************************************************)
\* the largest balance of a holding, in whole dollars
MaxBalance == 1
\* the largest whole amount typed at the prompt
MaxInvest == 1

Symbols == <<"VTI", "VXUS", "BND", "VNQ">>

\* the decimal numeral of n
NatText(n) == LET d == NatOf(n) IN [i \in 1..Len(d) |-> DigitChars[d[i] + 1]]

\* a balance cell of the export: dollars and cents
BalanceText(n) == NatText(n) \o <<".", "0", "0">>

\* a row of the export: the symbol is the third column, the balance the sixth
Row(symbol, balance_str) == <<"", "", symbol, "", "", balance_str>>

HeaderRow == Row("Symbol", <<"T", "o", "t", "a", "l">>)

Holdings == [Range(Symbols) -> 0..MaxBalance]

\* the broker's export: the holdings with the cash position among them, a
\* blank line, then the transaction table
ExportRows(h) ==
  << HeaderRow,
     Row("VTI", BalanceText(h["VTI"])),
     Row("VXUS", BalanceText(h["VXUS"])),
     Row(CashSymbol, BalanceText(MaxBalance)),
     Row("BND", BalanceText(h["BND"])),
     Row("VNQ", BalanceText(h["VNQ"])),
     <<>>,
     Row("VTI", <<"B", "u", "y">>) >>

\* a hand-made local file: VTI on two rows, VXUS and VNQ on none
LocalRows(h) ==
  << HeaderRow,
     Row("VTI", BalanceText(h["VTI"])),
     Row("BND", BalanceText(h["BND"])),
     Row("VTI", BalanceText(h["VXUS"])) >>

\* exports out of the ordinary: an empty file; a row cut short; balances
\* written with blanks, an exponent, a sign, an underscore; a balance that
\* is no number; a NaN, a signaling NaN and an infinite balance; a debit
\* that cancels the other holding
OddExports ==
  { <<>>,
    << HeaderRow, <<"", "", "VTI">> >>,
    << HeaderRow, Row("VTI", <<" ", VerticalTab, "1", ".", "0", "0", UnitSeparator>>),
                  Row("VXUS", <<"1", "e", "0">>),
                  Row("BND", <<RecordSeparator, "+", "1", ".", "\t">>),
                  Row("VNQ", <<"0", "_", "1", ".", "0", "0">>) >>,
    << HeaderRow, Row("VTI", <<"n", "/", "a">>) >>,
    << HeaderRow, Row("VTI", <<"N", "a", "N">>), Row("BND", BalanceText(1)) >>,
    << HeaderRow, Row("VNQ", <<"s", "N", "a", "N">>), Row("BND", BalanceText(1)) >>,
    << HeaderRow, Row("VTI", BalanceText(1)),
                  Row("BND", <<"I", "n", "f", "i", "n", "i", "t", "y">>) >>,
    << HeaderRow, Row("VTI", <<"-", "1", ".", "0", "0">>),
                  Row("BND", BalanceText(1)) >> }

FileSystems ==
  {<<>>}
  \cup {[p \in {FallbackBalancePath} |-> ExportRows(h)] : h \in Holdings}
  \cup {[p \in {FallbackBalancePath} |-> rows] : rows \in OddExports}
  \cup {[p \in {LocalBalancePath, FallbackBalancePath} |->
           IF p = LocalBalancePath THEN LocalRows(h) ELSE ExportRows(h)] :
        h \in {g \in Holdings : g["VNQ"] = 0}}

\* an ordered mapping from its items
DictOf(items) ==
  [keys |-> [i \in 1..Len(items) |-> items[i][1]],
   val |-> [k \in {items[i][1] : i \in 1..Len(items)} |->
              (CHOOSE it \in Range(items) : it[1] = k)[2]]]

Txt25 == <<"0", ".", "2", "5">>
Txt(d) == <<"0", ".", DigitChars[d + 1]>>

\* one category per holding, equal shares
ConfigFour ==
  [categories |-> DictOf(<< <<"US", <<"VTI">>>>, <<"Intl", <<"VXUS">>>>,
                            <<"Bonds", <<"BND">>>>, <<"RealEstate", <<"VNQ">>>> >>),
   target_allocation |-> DictOf(<< <<"US", Txt25>>, <<"Intl", Txt25>>,
                                   <<"Bonds", Txt25>>, <<"RealEstate", Txt25>> >>)]

\* every holding in one category, VTI listed twice in its list
ConfigRepeat ==
  [categories |-> DictOf(<< <<"Stocks", <<"VTI", "VXUS", "VTI">>>>,
                            <<"Bonds", <<"BND", "VNQ">>>> >>),
   target_allocation |-> DictOf(<< <<"Stocks", Txt(6)>>, <<"Bonds", Txt(4)>> >>)]

\* VTI in two categories, VNQ in none, GLD never held; a target for cash
\* that is no category
ConfigShared ==
  [categories |-> DictOf(<< <<"Stocks", <<"VTI", "VXUS">>>>,
                            <<"Income", <<"BND", "VTI">>>>,
                            <<"Gold", <<"GLD">>>> >>),
   target_allocation |-> DictOf(<< <<"Stocks", Txt(5)>>, <<"Income", Txt(2)>>,
                                   <<"Gold", Txt(2)>>, <<"Cash", Txt(1)>> >>)]

\* no category at all
ConfigEmpty == [categories |-> EmptyDict, target_allocation |-> EmptyDict]

\* a category without a target
ConfigNoTarget ==
  [categories |-> DictOf(<< <<"Stocks", <<"VTI", "VXUS">>>>,
                            <<"Bonds", <<"BND", "VNQ">>>> >>),
   target_allocation |-> DictOf(<< <<"Stocks", Txt(7)>>, <<"Cash", Txt(3)>> >>)]

\* the configuration without one of its two keys
Without(config, key) == [k \in DOMAIN config \ {key} |-> config[k]]

Configs ==
  { ConfigFour, ConfigRepeat, ConfigShared, ConfigEmpty, ConfigNoTarget,
    Without(ConfigRepeat, "categories"),
    Without(ConfigRepeat, "target_allocation") }

\* what the user may type: an amount, plain or with a thousands separator
\* in it, a negative amount, no number; an amount written with blanks, an
\* underscore and an exponent (1), an amount below the 28th digit of any
\* balance, and the special values Decimal() reads
\* 5.000000000000000000000000007, an amount of 28 digits
LongAmount == <<"5", ".">> \o [i \in 1..26 |-> "0"] \o <<"7">>

TypedLines ==
  {NatText(n) : n \in 0..MaxInvest}
  \cup {<<",">> \o NatText(n) : n \in 0..MaxInvest}
  \cup {<<"-", "1">>, <<"a", "l", "l">>}
  \cup {<<FileSeparator, "0", "_", "1", "e", "0", " ", GroupSeparator>>,
        <<"1", "E", "-", "3", "0">>, LongAmount,
        <<"N", "a", "N">>, <<"s", "n", "a", "n">>,
        <<"i", "n", "f">>, <<"-", "I", "n", "f", "i", "n", "i", "t", "y">>}

(***************************************************************************)
(* main()                                                                  *)
(***************************************************************************)
VARIABLES
  files,                \* the balance files on disk: path -> rows
  config_yaml,          \* the content of config.yaml
  pc,                   \* where main() is
  error,                \* the exception that ended the run, or "none"
  file_read,            \* whether a balance file has been opened
  prompted,             \* whether input() has been called
  output,               \* the tables printed so far, by their headings
  balance_file_path,
  categories,
  target_allocation,
  symbol_balances,
  category_totals,
  total_balance,
  current_allocation,
  investment_amount,
  desired_balances,
  needed_investments,
  total_needed,
  resulting_totals,
  resulting_total_balance,
  resulting_allocations

env == <<files, config_yaml>>
io == <<file_read, prompted, output>>
loaded == <<balance_file_path, categories, target_allocation>>
balances == <<symbol_balances, category_totals>>
analysis == <<total_balance, current_allocation>>
distribution == <<desired_balances, needed_investments, total_needed>>
results == <<resulting_totals, resulting_total_balance, resulting_allocations>>
vars == <<env, pc, error, io, loaded, balances, analysis, investment_amount,
          distribution, results>>

\* a local not assigned yet
None == Dec(0, <<>>, 0)

Init ==
  /\ files \in FileSystems
  /\ config_yaml \in Configs
  /\ pc = "load_config"
  /\ error = "none"
  /\ file_read = FALSE
  /\ prompted = FALSE
  /\ output = <<>>
  /\ balance_file_path = ""
  /\ categories = EmptyDict
  /\ target_allocation = EmptyDict
  /\ symbol_balances = EmptyDict
  /\ category_totals = EmptyDict
  /\ total_balance = None
  /\ current_allocation = EmptyDict
  /\ investment_amount = None
  /\ desired_balances = EmptyDict
  /\ needed_investments = EmptyDict
  /\ total_needed = None
  /\ resulting_totals = EmptyDict
  /\ resulting_total_balance = None
  /\ resulting_allocations = EmptyDict

\* an uncaught exception ends the run
Raise(exception) == pc' = "failed" /\ error' = exception
Goto(label) == pc' = label /\ error' = "none"

\* LoadConfig reading the two keys with config.get(key, {})
LoadConfig_defaults ==
  /\ pc = "load_config"
  /\ balance_file_path' = get_balance_file_path(files)
  /\ categories' = IF "categories" \in DOMAIN config_yaml
                   THEN config_yaml["categories"] ELSE EmptyDict
  /\ target_allocation' =
       IF "target_allocation" \in DOMAIN config_yaml
       THEN LET raw == config_yaml["target_allocation"]
            IN  DictOver(raw.keys, LAMBDA key : PyDecimal(raw.val[key]).val)
       ELSE EmptyDict
  /\ Goto("read_balances")
  /\ UNCHANGED <<env, io, balances, analysis, investment_amount, distribution, results>>

\* lines 95-102: the balance file path, the configuration and its two keys
LoadConfig ==
  /\ pc = "load_config"
  /\ balance_file_path' = get_balance_file_path(files)
  /\ IF "categories" \notin DOMAIN config_yaml
     THEN Raise("KeyError") /\ UNCHANGED <<categories, target_allocation>>
     ELSE /\ categories' = config_yaml["categories"]
          /\ IF "target_allocation" \notin DOMAIN config_yaml
             THEN Raise("KeyError") /\ UNCHANGED target_allocation
             ELSE LET raw == config_yaml["target_allocation"]
                      parsed == DictOver(raw.keys, LAMBDA key : PyDecimal(raw.val[key]))
                  IN  IF \E key \in Range(raw.keys) : ~parsed.val[key].ok
                      THEN Raise("InvalidOperation") /\ UNCHANGED target_allocation
                      ELSE /\ target_allocation' =
                                DictOver(raw.keys, LAMBDA key : parsed.val[key].val)
                           /\ Goto("read_balances")
  /\ UNCHANGED <<env, io, balances, analysis, investment_amount, distribution, results>>

\* line 104: get_balance_dictionary opens and reads the balance file
ReadBalances ==
  /\ pc = "read_balances"
  /\ IF balance_file_path \notin DOMAIN files
     THEN Raise("FileNotFoundError") /\ UNCHANGED <<file_read, symbol_balances>>
     ELSE LET read == get_balance_dictionary(files[balance_file_path])
          IN  /\ file_read' = TRUE
              /\ IF read.error = "none"
                 THEN symbol_balances' = read.dict /\ Goto("aggregate")
                 ELSE Raise(read.error) /\ UNCHANGED symbol_balances
  /\ UNCHANGED <<env, prompted, output, loaded, category_totals, analysis,
                 investment_amount, distribution, results>>

\* lines 105-107
Aggregate ==
  /\ pc = "aggregate"
  /\ LET totals == get_category_totals(symbol_balances, categories)
     IN  IF totals.error = "none"
         THEN category_totals' = totals.dict /\ Goto("print_balances")
         ELSE Raise(totals.error) /\ UNCHANGED category_totals
  /\ UNCHANGED <<env, io, loaded, symbol_balances, analysis, investment_amount,
                 distribution, results>>

\* lines 109-117: the balances by security, their sum (line 113), and the
\* balances by category
PrintBalances ==
  /\ pc = "print_balances"
  /\ LET total == PySum(DictValues(symbol_balances))
     IN  IF IsSignal(total)
         THEN /\ output' = Append(output, "Balances by Security:")
              /\ Raise(total.special)
         ELSE /\ output' = output \o <<"Balances by Security:", "Balances by Category:">>
              /\ Goto("analyze")
  /\ UNCHANGED <<env, file_read, prompted, loaded, balances, analysis,
                 investment_amount, distribution, results>>

\* Analyze guarded against an empty portfolio: no allocation is computed for it
Analyze_guarded ==
  /\ pc = "analyze"
  /\ output' = Append(output, "Target Allocation vs. Current Allocation:")
  /\ LET total == PySum(DictValues(category_totals))
         share(category) == DictGet(category_totals, category, DecOfInt(0))
         allocation == IF DecIsZero(total) THEN EmptyDict
                       ELSE DictOver(target_allocation.keys,
                                     LAMBDA category : DecDiv(share(category), total))
     IN  IF IsSignal(total)
         THEN Raise(total.special) /\ UNCHANGED <<total_balance, current_allocation>>
         ELSE /\ total_balance' = total
              /\ IF Failure(allocation) = "none"
                 THEN current_allocation' = allocation /\ Goto("prompt")
                 ELSE /\ current_allocation' =
                           ComputedBefore(allocation, FirstFailed(allocation))
                      /\ Raise(Failure(allocation))
  /\ UNCHANGED <<env, file_read, prompted, loaded, balances, investment_amount,
                 distribution, results>>

\* lines 119-124: the grand total, and the current allocation of every
\* category that has a target; the first division that raises ends the run,
\* after the allocations of the categories before it were computed
Analyze ==
  /\ pc = "analyze"
  /\ output' = Append(output, "Target Allocation vs. Current Allocation:")
  /\ LET total == PySum(DictValues(category_totals))
         share(category) == DictGet(category_totals, category, DecOfInt(0))
         allocation == DictOver(target_allocation.keys,
                                LAMBDA category : DecDiv(share(category), total))
     IN  IF IsSignal(total)
         THEN Raise(total.special) /\ UNCHANGED <<total_balance, current_allocation>>
         ELSE /\ total_balance' = total
              /\ IF Failure(allocation) = "none"
                 THEN current_allocation' = allocation /\ Goto("prompt")
                 ELSE /\ current_allocation' =
                           ComputedBefore(allocation, FirstFailed(allocation))
                      /\ Raise(Failure(allocation))
  /\ UNCHANGED <<env, file_read, prompted, loaded, balances, investment_amount,
                 distribution, results>>

\* line 126: prompt_for_investment_amount
Prompt ==
  /\ pc = "prompt"
  /\ prompted' = TRUE
  /\ \E typed \in TypedLines :
       LET amount == prompt_for_investment_amount(typed)
       IN  IF amount.ok
           THEN investment_amount' = amount.val /\ Goto("needed")
           ELSE Raise("InvalidOperation") /\ UNCHANGED investment_amount
  /\ UNCHANGED <<env, file_read, output, loaded, balances, analysis, distribution,
                 results>>

\* lines 128-140: the desired balance and the shortfall of every category
ComputeNeeded ==
  /\ pc = "needed"
  /\ LET desired == get_desired_balances(investment_amount, total_balance,
                                         target_allocation)
         needed == NeededInvestments(categories, desired.dict, category_totals)
     IN  IF desired.error # "none"
         THEN Raise(desired.error) /\ UNCHANGED <<desired_balances, needed_investments>>
         ELSE /\ desired_balances' = desired.dict
              /\ IF Failure(needed) = "none"
                 THEN needed_investments' = needed /\ Goto("cap")
                 ELSE Raise(Failure(needed)) /\ UNCHANGED needed_investments
  /\ UNCHANGED <<env, io, loaded, balances, analysis, investment_amount,
                 total_needed, results>>

\* lines 143-148: the sum of the shortfalls, its comparison with the amount
\* invested (which raises on a NaN), and the scaling loop, which replaces
\* the shortfalls one by one until a division or a product raises
CapToInvestment ==
  /\ pc = "cap"
  /\ LET needed == PySum(DictValues(needed_investments))
         capped == CappedInvestments(needed_investments, needed, investment_amount)
     IN  IF IsSignal(needed)
         THEN Raise(needed.special) /\ UNCHANGED <<total_needed, needed_investments>>
         ELSE /\ total_needed' = needed
              /\ IF CmpRaises(needed, investment_amount)
                 THEN Raise("InvalidOperation") /\ UNCHANGED needed_investments
                 ELSE IF Failure(capped) = "none"
                 THEN needed_investments' = capped /\ Goto("resulting")
                 ELSE /\ needed_investments' =
                           ReplacedBefore(needed_investments, capped, FirstFailed(capped))
                      /\ Raise(Failure(capped))
  /\ UNCHANGED <<env, io, loaded, balances, analysis, investment_amount,
                 desired_balances, results>>

\* lines 151-161: the totals and the allocation after the investment
ComputeResulting ==
  /\ pc = "resulting"
  /\ LET totals == ResultingTotals(categories, category_totals, needed_investments)
         balance == PySum(DictValues(totals))
         allocations == DictOver(categories.keys,
                                 LAMBDA category : DecDiv(totals.val[category], balance))
     IN  IF Failure(totals) # "none"
         THEN Raise(Failure(totals)) /\ UNCHANGED results
         ELSE /\ resulting_totals' = totals
              /\ IF IsSignal(balance)
                 THEN /\ Raise(balance.special)
                      /\ UNCHANGED <<resulting_total_balance, resulting_allocations>>
                 ELSE /\ resulting_total_balance' = balance
                      /\ IF Failure(allocations) = "none"
                         THEN resulting_allocations' = allocations /\ Goto("print_results")
                         ELSE Raise(Failure(allocations)) /\ UNCHANGED resulting_allocations
  /\ UNCHANGED <<env, io, loaded, balances, analysis, investment_amount, distribution>>

\* lines 164-171: the recommendation and the resulting allocation
PrintResults ==
  /\ pc = "print_results"
  /\ output' = output \o <<"Recommended Investment Allocation:",
                           "Resulting Allocation After Investment:">>
  /\ pc' = "done"
  /\ UNCHANGED <<env, error, file_read, prompted, loaded, balances, analysis,
                 investment_amount, distribution, results>>

Next ==
  \/ LoadConfig
  \/ ReadBalances
  \/ Aggregate
  \/ PrintBalances
  \/ Analyze
  \/ Prompt
  \/ ComputeNeeded
  \/ CapToInvestment
  \/ ComputeResulting
  \/ PrintResults

Spec == Init /\ [][Next]_vars

(***************************************************************************)
(* The properties.  Amounts are compared as the program compares them and, *)
(* where the program's value is exact, as integers: Units(d) is a plain    *)
(* amount d in ten-thousandths of a dollar.                                *)
(***************************************************************************)
RECURSIVE Pow10(_)
Pow10(k) == IF k = 0 THEN 1 ELSE 10 * Pow10(k - 1)

\* a number written out to the ten-thousandth at most
Plain(d) == IsFinite(d) /\ d.exp >= -4

Units(d) ==
  IF DecIsZero(d) THEN 0
  ELSE (IF d.sign = 1 THEN -1 ELSE 1) * NatVal(d.int) * Pow10(4 + d.exp)

\* the sum of the values of the function f
RECURSIVE FunSum(_)
FunSum(f) ==
  IF DOMAIN f = {} THEN 0
  ELSE LET x == CHOOSE y \in DOMAIN f : TRUE
       IN  f[x] + FunSum([y \in DOMAIN f \ {x} |-> f[y]])

SetSum(S, f(_)) == FunSum([x \in S |-> f(x)])

\* how many times symbol s stands in the list
Occurrences(list, s) == Cardinality({i \in 1..Len(list) : list[i] = s})

\* the balance of a symbol, 0 for a symbol without one
BalanceUnits(s) ==
  IF HasKey(symbol_balances, s) THEN Units(symbol_balances.val[s]) ELSE 0

CategoryKeys == Range(categories.keys)
TotalUnits == SetSum(CategoryKeys, LAMBDA c : Units(category_totals.val[c]))

\* what category c lacks of its share of the balance after the investment
ShortfallUnits(c) ==
  Max2(0, ((TotalUnits + Units(investment_amount))
             * (Units(target_allocation.val[c]) \div 100)) \div 100
          - Units(category_totals.val[c]))

\* the same from the program's values
Shortfall(c) ==
  PyMax(DecSub(desired_balances.val[c], category_totals.val[c]), DecOfInt(0))

\* the same from the balance, the investment and the target
ShortfallOfTarget(c) ==
  PyMax(DecSub(DecMul(DecAdd(total_balance, investment_amount),
                      target_allocation.val[c]),
               category_totals.val[c]),
        DecOfInt(0))

DecAbs(d) == [d EXCEPT !.sign = 0]
Epsilon == Dec(0, <<1>>, -9)
Near(a, b) == DecLe(DecAbs(DecSub(a, b)), Epsilon)

\* a equal to b but for the last two of the 28 digits of an amount of m
Rounding == Dec(0, <<1>>, 2 - Prec)
Close(a, b, m) ==
  \/ DecEq(a, b)
  \/ /\ IsFinite(a) /\ IsFinite(b) /\ IsFinite(m)
     /\ DecLe(DecAbs(DecSub(a, b)), DecMul(Rounding, DecAbs(m)))

\* a == b, which is false of a NaN
SameAmount(a, b) == ~IsNaN(a) /\ ~IsNaN(b) /\ DecEq(a, b)

NonNegative(d) == ~IsNaN(d) /\ (d.sign = 0 \/ DecIsZero(d))

\* how far main() has come
Aggregated == pc = "print_balances" \/ output # <<>>
Analyzed == Len(output) >= 3
Capped ==
  /\ total_needed # None
  /\ \/ pc \in {"resulting", "print_results", "done"}
     \/ pc = "failed" /\ resulting_totals # EmptyDict
Resulted == resulting_total_balance # None
InvestNonNegative == investment_amount # None /\ NonNegative(investment_amount)
NonNegativeBalances ==
  \A s \in Range(symbol_balances.keys) : NonNegative(symbol_balances.val[s])
NonNegativeTotals ==
  \A c \in CategoryKeys : NonNegative(category_totals.val[c])
FiniteBalances ==
  \A s \in Range(symbol_balances.keys) : IsFinite(symbol_balances.val[s])
PlainAmounts ==
  /\ Plain(investment_amount)
  /\ \A c \in CategoryKeys : Plain(category_totals.val[c])
Scaled == Capped /\ DecGt(total_needed, investment_amount)
NeededSum == PySum(DictValues(needed_investments))

\* C1: with a non-negative investment, when the shortfalls add up to more
\* than the investment each category gets investment * (shortfall / total
\* shortfall), and what the categories get adds up to the investment within
\* the rounding of the division (1e-9, and the last two digits of the
\* investment).
C1_ProportionalCapping ==
  (Scaled /\ InvestNonNegative) =>
     /\ \A c \in CategoryKeys :
          needed_investments.val[c] =
            DecMul(investment_amount, DecDiv(Shortfall(c), total_needed))
     /\ Near(NeededSum, investment_amount)
     /\ Close(NeededSum, investment_amount, investment_amount)

\* scaled by a ratio with no finite decimal expansion, the parts adding up
\* to something else than the investment
C1_Witness ==
  /\ Scaled /\ InvestNonNegative
  /\ ~DecIsZero(investment_amount)
  /\ \E c \in CategoryKeys : Len(needed_investments.val[c].int) = Prec
  /\ ~DecEq(NeededSum, investment_amount)

\* C2: when the shortfalls add up to no more than the investment, every
\* category gets exactly its shortfall, max(0, (total + investment) * target
\* - current), which for plain amounts is that number exactly; the rest of
\* the investment goes to no category.
C2_NonScaling ==
  (Capped /\ ~DecGt(total_needed, investment_amount)) =>
     /\ \A c \in CategoryKeys : needed_investments.val[c] = ShortfallOfTarget(c)
     /\ total_needed = NeededSum
     /\ PlainAmounts =>
          /\ \A c \in CategoryKeys :
               /\ Len(needed_investments.val[c].int) < Prec
               /\ Units(needed_investments.val[c]) = ShortfallUnits(c)
          /\ Units(total_needed) = SetSum(CategoryKeys, ShortfallUnits)

\* shortfalls below the investment: part of it stays unassigned
C2_Witness ==
  /\ Capped /\ PlainAmounts
  /\ DecGt(investment_amount, total_needed)
  /\ ~DecIsZero(total_needed)
  /\ Units(NeededSum) < Units(investment_amount)

\* C3 as stated: with a non-negative investment and non-negative balances,
\* every category gets at least 0 and at most its shortfall, and exactly 0
\* when it is at or above its desired balance.
C3_NeededWithinShortfall ==
  (Capped /\ InvestNonNegative /\ NonNegativeBalances) =>
     \A c \in CategoryKeys :
       /\ DecLe(DecOfInt(0), needed_investments.val[c])
       /\ DecLe(needed_investments.val[c], Shortfall(c))
       /\ DecLe(desired_balances.val[c], category_totals.val[c])
            => DecIsZero(needed_investments.val[c])

\* the quotient of line 147 for category c, and whether decimal keeps all
\* 28 digits of it: it is 0, or at least 1E-999999
ScalingQuotient(c) == DecDiv(Shortfall(c), total_needed)
FullPrecision(q) == IsFinite(q) /\ (DecIsZero(q) \/ q.exp + Len(q.int) - 1 >= Emin)

\* a is at most b * (1 + 2E-27), for a and b that differ in their last
\* digits at most (a - b is then exact, and so is its product by 5E+26)
WithinRounding(a, b) ==
  DecLe(DecMul(DecSub(a, b), Dec(0, <<5>>, Prec - 2)), b)

\* C3, amended: with a non-negative investment and non-negative balances,
\* every category gets at least 0, and exactly 0 when it is at or above its
\* desired balance; unscaled it gets its shortfall, and scaled at most its
\* shortfall * (1 + 2E-27), the rounding of the quotient and of the product
\* of lines 146-147, when the quotient keeps its 28 digits.
C3_NeededUpToRounding ==
  (Capped /\ InvestNonNegative /\ NonNegativeBalances) =>
     \A c \in CategoryKeys :
       /\ DecLe(DecOfInt(0), needed_investments.val[c])
       /\ DecLe(desired_balances.val[c], category_totals.val[c])
            => DecIsZero(needed_investments.val[c])
       /\ ~Scaled => DecEq(needed_investments.val[c], Shortfall(c))
       /\ (Scaled /\ FullPrecision(ScalingQuotient(c)))
            => WithinRounding(needed_investments.val[c], Shortfall(c))

\* scaled on a total shortfall one last digit above the investment: a
\* category gets more than its shortfall, by a digit past the shortfall's
C3_Witness ==
  /\ Scaled /\ InvestNonNegative /\ NonNegativeBalances
  /\ pc = "done"
  /\ \E c \in CategoryKeys :
       /\ FullPrecision(ScalingQuotient(c))
       /\ DecGt(needed_investments.val[c], Shortfall(c))
       /\ WithinRounding(needed_investments.val[c], Shortfall(c))

\* C4: with an investment of 0, every category gets 0 and the resulting
\* totals are the current totals, entry for entry.
C4_ZeroInvestment ==
  (Capped /\ DecIsZero(investment_amount)) =>
     /\ \A c \in CategoryKeys : DecIsZero(needed_investments.val[c])
     /\ Resulted =>
          /\ resulting_totals.keys = category_totals.keys
          /\ \A c \in CategoryKeys :
               DecEq(resulting_totals.val[c], category_totals.val[c])

\* nothing invested in a portfolio off its targets: the scaling branch
C4_Witness ==
  /\ Resulted
  /\ DecIsZero(investment_amount)
  /\ DecGt(total_needed, investment_amount)
  /\ \E c \in CategoryKeys : DecGt(category_totals.val[c], desired_balances.val[c])

\* every symbol with a balance stands in the list of exactly one category
InOneCategory ==
  \A s \in Range(symbol_balances.keys) :
    Cardinality({c \in CategoryKeys : s \in Range(categories.val[c])}) = 1

\* every symbol with a balance stands once in the lists of all categories
ListedOnce ==
  \A s \in Range(symbol_balances.keys) :
    SetSum(CategoryKeys, LAMBDA c : Occurrences(categories.val[c], s)) = 1

BalancesUnits == SetSum(Range(symbol_balances.keys), BalanceUnits)

\* sum(category_totals.values()) == sum(symbol_balances.values())
SumsAgree ==
  SameAmount(PySum(DictValues(category_totals)), PySum(DictValues(symbol_balances)))

\* C5 as stated: when every symbol with a balance belongs to exactly one
\* category, the category totals add up to the sum of the balances.
C5_ConservationByCategory ==
  (Aggregated /\ InOneCategory) => SumsAgree

\* C5, amended: when every symbol with a balance is listed exactly once in
\* the lists of all categories together and the balances are finite
\* numbers, the category totals add up to the sum of the balances.
C5_ConservationListedOnce ==
  (Aggregated /\ ListedOnce /\ FiniteBalances) =>
     SumsAgree /\ TotalUnits = BalancesUnits

\* two symbols to a category, each listed once, money in the portfolio
C5_Witness ==
  /\ Aggregated /\ ListedOnce /\ FiniteBalances
  /\ \E c \in CategoryKeys : Len(categories.val[c]) = 2
  /\ BalancesUnits > 0
  /\ Len(symbol_balances.keys) = Len(Symbols)

\* the balances of the symbols listed under category c that have one
Listed(c) ==
  {symbol_balances.val[s] : s \in Range(categories.val[c]) \cap Range(symbol_balances.keys)}

\* C6: get_category_totals gives an entry to every category of the
\* configuration and to nothing else; the entry is the sum over the symbols
\* of the category's list, as often as they are listed, of the symbol's
\* balance, 0 for a symbol without a balance: that number for finite
\* balances, a NaN with a NaN among them, else infinite with an infinite
\* one.
C6_CategoryTotals ==
  Aggregated =>
     /\ category_totals.keys = categories.keys
     /\ DOMAIN category_totals.val = CategoryKeys
     /\ \A c \in CategoryKeys :
          IF \A b \in Listed(c) : IsFinite(b)
          THEN Units(category_totals.val[c]) =
                 SetSum(Range(categories.val[c]),
                        LAMBDA s : Occurrences(categories.val[c], s) * BalanceUnits(s))
          ELSE IF \E b \in Listed(c) : IsNaN(b) THEN IsNaN(category_totals.val[c])
          ELSE IsInfinite(category_totals.val[c])

\* VTI counted in both of its categories, the category of a symbol that is
\* not held at 0
C6_Witness ==
  /\ Aggregated /\ FiniteBalances
  /\ \E c \in CategoryKeys, d \in CategoryKeys :
       /\ c # d
       /\ "VTI" \in Range(categories.val[c]) \cap Range(categories.val[d])
       /\ BalanceUnits("VTI") > 0
       /\ Units(category_totals.val[c]) = BalanceUnits("VTI")
       /\ Units(category_totals.val[d]) = BalanceUnits("VTI")
  /\ \E c \in CategoryKeys :
       /\ \A i \in 1..Len(categories.val[c]) :
            ~HasKey(symbol_balances, categories.val[c][i])
       /\ category_totals.val[c] = DecOfInt(0)

GrandTotalZero == Aggregated /\ DecIsZero(PySum(DictValues(category_totals)))
DivisionErrors == {"DivisionByZero", "InvalidOperation"}
NothingDistributed ==
  /\ ~prompted
  /\ investment_amount = None
  /\ desired_balances = EmptyDict
  /\ needed_investments = EmptyDict
  /\ resulting_totals = EmptyDict
  /\ resulting_allocations = EmptyDict
  /\ Len(output) = 3

\* C7 as stated: when the category totals add up to 0, the current
\* allocation step fails with a division error and the run stops there,
\* before the prompt and the distribution.
C7_ZeroTotalStops ==
  (Analyzed /\ GrandTotalZero) =>
     pc = "failed" /\ error \in DivisionErrors /\ NothingDistributed

\* C7, amended: when the category totals add up to 0 and there is a target
\* for at least one category, the step fails on its first division, 0 / 0
\* raising InvalidOperation and x / 0 DivisionByZero, and the run stops
\* there, before the prompt and the distribution.
C7_ZeroTotalWithTargetStops ==
  (Analyzed /\ GrandTotalZero /\ target_allocation.keys # <<>>) =>
     /\ pc = "failed"
     /\ error = IF DecIsZero(DictGet(category_totals, target_allocation.keys[1],
                                     DecOfInt(0)))
                THEN "InvalidOperation" ELSE "DivisionByZero"
     /\ NothingDistributed

\* an empty portfolio, with targets
C7_Witness ==
  /\ Analyzed /\ GrandTotalZero
  /\ Len(target_allocation.keys) > 1
  /\ pc = "failed"
  /\ error = "InvalidOperation"

\* C8 as stated: with non-negative totals and investment, the resulting
\* total balance is 0 only if every category total is 0 and the investment
\* is 0.
C8_ZeroResultOnlyFromNothing ==
  (Resulted /\ InvestNonNegative /\ NonNegativeTotals
     /\ DecIsZero(resulting_total_balance)) =>
     /\ \A c \in CategoryKeys : DecIsZero(category_totals.val[c])
     /\ DecIsZero(investment_amount)

\* C8, amended: with non-negative totals and investment, the resulting total
\* balance is 0 only if every category total is 0 and no category gets any
\* of the investment.
C8_ZeroResultOnlyFromZeroTotals ==
  (Resulted /\ InvestNonNegative /\ NonNegativeTotals
     /\ DecIsZero(resulting_total_balance)) =>
     /\ \A c \in CategoryKeys : DecIsZero(category_totals.val[c])
     /\ \A c \in CategoryKeys : DecIsZero(needed_investments.val[c])
     /\ DecIsZero(total_balance)

\* a resulting total balance of 0 after an investment that is not 0
C8_Witness ==
  /\ Resulted /\ InvestNonNegative /\ NonNegativeTotals
  /\ DecIsZero(resulting_total_balance)
  /\ ~DecIsZero(investment_amount)
  /\ pc = "done"

MissingKey == ~({"categories", "target_allocation"} \subseteq DOMAIN config_yaml)

\* C9: when the configuration lacks one of its two keys, the run ends with a
\* KeyError before it reads a balance file, aggregates, prints or prompts.
C9_MissingKeyAborts ==
  MissingKey =>
     /\ pc \in {"load_config", "failed"}
     /\ pc = "failed" => error = "KeyError"
     /\ ~file_read
     /\ symbol_balances = EmptyDict
     /\ category_totals = EmptyDict
     /\ output = <<>>
     /\ ~prompted

\* the run ended on the missing target_allocation, the files in place
C9_Witness ==
  /\ MissingKey
  /\ pc = "failed"
  /\ "categories" \in DOMAIN config_yaml
  /\ categories # EmptyDict
  /\ DOMAIN files # {}

\* a + b of two finite numbers, unrounded
ExactPlus(a, b) ==
  AddCoeffs(a.sign, NatShift(a.int, a.exp - Min2(a.exp, b.exp)),
            b.sign, NatShift(b.int, b.exp - Min2(a.exp, b.exp)),
            Min2(a.exp, b.exp), Min2(a.exp, b.exp))

\* the sum of the first n targets, unrounded
RECURSIVE TargetSum(_)
TargetSum(n) ==
  IF n = 0 THEN DecOfInt(0)
  ELSE ExactPlus(TargetSum(n - 1), target_allocation.val[target_allocation.keys[n]])

\* the categories are the keys of the target allocation and the targets add
\* up to 1
TargetsComplete ==
  /\ CategoryKeys = Range(target_allocation.keys)
  /\ \A c \in CategoryKeys : IsFinite(target_allocation.val[c])
  /\ DecEq(TargetSum(Len(target_allocation.keys)), DecOfInt(1))

\* the balance after the investment, as get_desired_balances has it
NewTotalBalance == DecAdd(total_balance, investment_amount)

  /\ ~DecIsZero(investment_amount)
  /\ DecEq(NeededSum, investment_amount)
  /\ pc = "done"

====
